---- MODULE Spec2Model ----
(***************************************************************************)
(* Configuration resolution of ecspresso (config.go): the scoped           *)
(* environment overlay, Load / Restrict / setupPlugins / ValidateVersion   *)
(* and the ConfigIgnore tag filter.                                        *)
(***************************************************************************)
EXTENDS Integers, Sequences, FiniteSets, TLC

VARIABLES
    \* ---- process environment and the overlay (withExtraEnvSet) ----
    env,        \* the process environment: key -> [ok, val]
    tpc,        \* per thread: position inside withExtraEnvSet
    extraEnv,   \* per thread: the extraEnv argument
    oldValues,  \* per thread: the local map oldValues
    todo,       \* per thread: keys the current range loop has not visited yet
    cur,        \* per thread: the key of the running loop iteration
    opKind,     \* per thread: which operation f was passed
    opResult,   \* per thread: outcome of f
    envAtCall,  \* per thread: the environment when the call started
    touched,    \* per thread: keys the overlay code itself wrote during the call
    \* ---- the loader, and the Config a Load or Restrict call works on ----
    lpc,          \* position inside Load / Restrict
    cfgPath,      \* Load's argument path
    version,      \* Load's argument version
    conf,         \* the Config being built
    origConf,     \* the Config as it entered the running Restrict call
    viaLoad,      \* TRUE when Restrict was called by Load
    plugins,      \* setupPlugins' local slice plugins
    setupLog,     \* names of the plugins whose Setup the running Restrict invoked
    setupFailed,  \* position in plugins of the Setup that failed, 0 if none
    pluginWrote,  \* Config fields plugins have written on conf
    restrictErr,  \* error of the last Restrict call ("" for nil)
    restricts,    \* Restrict calls completed without error on conf
    retConf,      \* Load's returned *Config
    retErr,       \* Load's returned error ("" for nil)
    loaderFuncs,  \* template functions registered on the loader
    loaderNative, \* native functions registered on the loader's jsonnet VM
    funcsAtCall,  \* loaderFuncs when the running Load call started
    nativeAtCall, \* loaderNative when the running Load call started
    loads,        \* Load calls made on the loader
    \* ---- an entity with tags and the ignore rule applied to it ----
    ignore,       \* the *ConfigIgnore receiver
    tags,         \* the entity's tag list (GetTags / SetTags)
    tagsGiven,    \* the tag list before any Apply
    tagsOnce,     \* the tag list after the first Apply
    applies       \* Apply calls made

envVars == <<env, tpc, extraEnv, oldValues, todo, cur, opKind,
             opResult, envAtCall, touched>>

loadVars == <<lpc, cfgPath, version, conf, origConf, viaLoad, plugins, setupLog,
              setupFailed, pluginWrote, restrictErr, restricts, retConf, retErr,
              loaderFuncs, loaderNative, funcsAtCall, nativeAtCall, loads>>

tagVars == <<ignore, tags, tagsGiven, tagsOnce, applies>>

vars == <<envVars, loadVars, tagVars>>

-----------------------------------------------------------------------------
(* Process environment                                                     *)

\* Variable names used by the overlay.
EnvKeys == {"K1", "K2", "K3"}

\* Values a variable may hold; the empty string is a legal value.
EnvVals == {"", "x"}

Threads == {1, 2}

Absent == [ok |-> FALSE, val |-> ""]

Present(v) == [ok |-> TRUE, val |-> v]

\* os.LookupEnv: (value, ok)
LookupEnv(e, k) == e[k]

\* os.Setenv
Setenv(e, k, v) == [e EXCEPT ![k] = Present(v)]

\* os.Unsetenv
Unsetenv(e, k) == [e EXCEPT ![k] = Absent]

\* extraEnv map[string]string, which may be nil
NilMap == [nil |-> TRUE, m |-> <<>>]

MapOf(f) == [nil |-> FALSE, m |-> f]

MapsOver(keys, vals) ==
    {NilMap} \cup { MapOf(f) : f \in UNION { [D -> vals] : D \in SUBSET keys } }

ExtraEnvs == MapsOver(EnvKeys, EnvVals)

\* oldValues[k]: interface{} holding the previous string, or nil
NilValue == [isNil |-> TRUE, str |-> ""]

StrValue(s) == [isNil |-> FALSE, str |-> s]

\* a save that takes an empty previous value for an unset variable
SavedValueEmptyIsNil(e, k) ==
    IF LookupEnv(e, k).ok /\ LookupEnv(e, k).val # ""
    THEN StrValue(LookupEnv(e, k).val)
    ELSE NilValue

\* lines 59-63: what the loop saves for key k
SavedValue(e, k) == IF LookupEnv(e, k).ok
                    THEN StrValue(LookupEnv(e, k).val)
                    ELSE NilValue

\* a restore that forgets to unset a variable that was absent
RestoreKeyNoUnset(e, k, v) == IF v.isNil THEN e ELSE Setenv(e, k, v.str)

\* lines 68-72: the deferred restore of one key
RestoreKey(e, k, v) == IF v.isNil THEN Unsetenv(e, k) ELSE Setenv(e, k, v.str)

\* environments a process can start with
StartEnvs == [EnvKeys -> {Absent} \cup {Present(v) : v \in EnvVals}]

EnvIdle ==
    /\ tpc = [t \in Threads |-> "idle"]
    /\ extraEnv = [t \in Threads |-> NilMap]
    /\ oldValues = [t \in Threads |-> <<>>]
    /\ todo = [t \in Threads |-> {}]
    /\ cur = [t \in Threads |-> ""]
    /\ opKind = [t \in Threads |-> "custom"]
    /\ opResult = [t \in Threads |-> "none"]
    /\ envAtCall = [t \in Threads |-> [k \in EnvKeys |-> Absent]]
    /\ touched = [t \in Threads |-> {}]

\* line 52-57: entry of withExtraEnvSet(extraEnv, f)
Enter(t, ee, kind) ==
    /\ tpc[t] = "idle"
    /\ extraEnv' = [extraEnv EXCEPT ![t] = ee]
    /\ opKind' = [opKind EXCEPT ![t] = kind]
    /\ opResult' = [opResult EXCEPT ![t] = "none"]
    /\ envAtCall' = [envAtCall EXCEPT ![t] = env]
    /\ touched' = [touched EXCEPT ![t] = {}]
    /\ oldValues' = [oldValues EXCEPT ![t] = <<>>]
    /\ cur' = [cur EXCEPT ![t] = ""]
    /\ IF ee.nil \/ DOMAIN ee.m = {}
       THEN /\ tpc' = [tpc EXCEPT ![t] = "op"]
            /\ todo' = [todo EXCEPT ![t] = {}]
       ELSE /\ tpc' = [tpc EXCEPT ![t] = "save"]
            /\ todo' = [todo EXCEPT ![t] = DOMAIN ee.m]
    /\ UNCHANGED env
    /\ UNCHANGED <<loadVars, tagVars>>

\* withExtraEnvSet called with an arbitrary operation f
withExtraEnvSet(t, ee) == Enter(t, ee, "custom")

\* lines 79-83
ReadWithEnv(t, ee) == Enter(t, ee, "ReadWithEnv")

\* lines 85-89
ReadWithEnvBytes(t, ee) == Enter(t, ee, "ReadWithEnvBytes")

\* lines 58-63: the range loop picks a key (map order is unspecified) and
\* records its present value
SaveOld(t) ==
    /\ tpc[t] = "save"
    /\ \E k \in todo[t] :
         /\ cur' = [cur EXCEPT ![t] = k]
         /\ oldValues' = [oldValues EXCEPT ![t] =
                            [j \in DOMAIN oldValues[t] \cup {k} |->
                               IF j = k THEN SavedValue(env, k) ELSE oldValues[t][j]]]
         /\ todo' = [todo EXCEPT ![t] = todo[t] \ {k}]
    /\ tpc' = [tpc EXCEPT ![t] = "set"]
    /\ UNCHANGED <<env, extraEnv, opKind, opResult, envAtCall, touched>>
    /\ UNCHANGED <<loadVars, tagVars>>

\* line 64: os.Setenv(k, v), then the next iteration or f
SetNew(t) ==
    /\ tpc[t] = "set"
    /\ env' = Setenv(env, cur[t], extraEnv[t].m[cur[t]])
    /\ touched' = [touched EXCEPT ![t] = touched[t] \cup {cur[t]}]
    /\ tpc' = [tpc EXCEPT ![t] = IF todo[t] = {} THEN "op" ELSE "save"]
    /\ UNCHANGED <<extraEnv, oldValues, todo, cur, opKind, opResult, envAtCall>>
    /\ UNCHANGED <<loadVars, tagVars>>

\* what an operation may do to the environment while it runs: the loader's
\* readers only read it; an arbitrary f may also set or unset a variable
OpWrites(kind, e) ==
    IF kind = "custom"
    THEN {e} \cup { Setenv(e, k, v) : k \in EnvKeys, v \in EnvVals }
             \cup { Unsetenv(e, k) : k \in EnvKeys }
    ELSE {e}

\* line 76: f() runs; it returns bytes, returns an error, or panics
RunOp(t) ==
    /\ tpc[t] = "op"
    /\ \E r \in {"ok", "err", "panic"} : opResult' = [opResult EXCEPT ![t] = r]
    /\ \E e2 \in OpWrites(opKind[t], env) : env' = e2
    /\ IF extraEnv[t].nil
       THEN /\ tpc' = [tpc EXCEPT ![t] = "ret"]
            /\ todo' = todo
       ELSE /\ tpc' = [tpc EXCEPT ![t] = "restore"]
            /\ todo' = [todo EXCEPT ![t] = DOMAIN oldValues[t]]
    /\ UNCHANGED <<extraEnv, oldValues, cur, opKind, envAtCall, touched>>
    /\ UNCHANGED <<loadVars, tagVars>>

\* lines 66-74: the deferred function restores one key per iteration
Restore(t) ==
    /\ tpc[t] = "restore"
    /\ IF todo[t] = {}
       THEN /\ tpc' = [tpc EXCEPT ![t] = "ret"]
            /\ UNCHANGED <<env, todo, touched>>
       ELSE \E k \in todo[t] :
              /\ env' = RestoreKey(env, k, oldValues[t][k])
              /\ todo' = [todo EXCEPT ![t] = todo[t] \ {k}]
              /\ touched' = [touched EXCEPT ![t] = touched[t] \cup {k}]
              /\ tpc' = tpc
    /\ UNCHANGED <<extraEnv, oldValues, cur, opKind, opResult, envAtCall>>
    /\ UNCHANGED <<loadVars, tagVars>>

\* the call is over: the caller has the result (or the panic unwinds)
Return(t) ==
    /\ tpc[t] = "ret"
    /\ tpc' = [tpc EXCEPT ![t] = "idle"]
    /\ UNCHANGED <<env, extraEnv, oldValues, todo, cur, opKind, opResult,
                   envAtCall, touched>>
    /\ UNCHANGED <<loadVars, tagVars>>

-----------------------------------------------------------------------------
(* File paths: strings are sequences of one-character strings              *)

RECURSIVE SplitFrom(_, _, _)
\* strings.Split(s, "/") as a left-to-right scan from position i
SplitFrom(s, i, acc) ==
    IF i > Len(s) THEN acc
    ELSE IF s[i] = "/" THEN SplitFrom(s, i + 1, Append(acc, <<>>))
    ELSE SplitFrom(s, i + 1, [acc EXCEPT ![Len(acc)] = Append(@, s[i])])

RECURSIVE CleanFrom(_, _, _, _)
\* the element stack filepath.Clean builds: "" and "." are dropped, ".."
\* removes the last element unless there is none to remove
CleanFrom(comps, i, rooted, st) ==
    IF i > Len(comps) THEN st
    ELSE LET c == comps[i] IN
         IF c = <<>> \/ c = <<".">> THEN CleanFrom(comps, i + 1, rooted, st)
         ELSE IF c = <<".", ".">>
              THEN IF Len(st) > 0 /\ st[Len(st)] # <<".", ".">>
                   THEN CleanFrom(comps, i + 1, rooted, SubSeq(st, 1, Len(st) - 1))
                   ELSE IF rooted THEN CleanFrom(comps, i + 1, rooted, st)
                   ELSE CleanFrom(comps, i + 1, rooted, Append(st, c))
              ELSE CleanFrom(comps, i + 1, rooted, Append(st, c))

RECURSIVE JoinSlash(_)
\* strings.Join(elems, "/")
JoinSlash(elems) ==
    IF Len(elems) = 0 THEN <<>>
    ELSE IF Len(elems) = 1 THEN elems[1]
    ELSE elems[1] \o <<"/">> \o JoinSlash(Tail(elems))

\* filepath.IsAbs
IsAbs(p) == Len(p) > 0 /\ p[1] = "/"

\* filepath.Clean
Clean(p) ==
    IF p = <<>> THEN <<".">>
    ELSE LET body == JoinSlash(CleanFrom(SplitFrom(p, 1, << <<>> >>), 1, IsAbs(p), <<>>))
         IN  IF IsAbs(p) THEN <<"/">> \o body
             ELSE IF body = <<>> THEN <<".">> ELSE body

\* filepath.Join(dir, p) for a non-empty dir, as lines 183 and 186 call it
Join(dir, p) == Clean(dir \o <<"/">> \o p)

\* index of the last "/" of p, 0 when there is none
LastSlash(p) ==
    IF \E i \in 1..Len(p) : p[i] = "/"
    THEN CHOOSE i \in 1..Len(p) : p[i] = "/" /\ \A j \in (i + 1)..Len(p) : p[j] # "/"
    ELSE 0

\* filepath.Dir
Dir(p) == Clean(SubSeq(p, 1, LastSlash(p)))

\* filepath.Ext: the suffix of the last element from its last "."
Ext(p) ==
    LET dots == { i \in (LastSlash(p) + 1)..Len(p) : p[i] = "." } IN
    IF dots = {} THEN <<>>
    ELSE SubSeq(p, CHOOSE i \in dots : \A j \in dots : j <= i, Len(p))

ymlExt == <<".", "y", "m", "l">>

yamlExt == <<".", "y", "a", "m", "l">>

jsonExt == <<".", "j", "s", "o", "n">>

jsonnetExt == <<".", "j", "s", "o", "n", "n", "e", "t">>

-----------------------------------------------------------------------------
(* Versions and constraints (hashicorp/go-version as config.go uses it).   *)
(* A version string is a sequence of dot-separated tokens, optionally      *)
(* led by "v"; a constraint expression is a sequence of comma-separated    *)
(* clauses, each an operator and a version string.                         *)

Digits == ("0" :> 0) @@ ("1" :> 1) @@ ("2" :> 2) @@ ("9" :> 9)

StripV(s) == IF Len(s) > 0 /\ s[1] = "v" THEN Tail(s) ELSE s

\* goVersion.NewVersion fails
VersionError(s) ==
    \/ Len(StripV(s)) = 0
    \/ \E i \in 1..Len(StripV(s)) : StripV(s)[i] \notin DOMAIN Digits

\* goVersion.NewVersion: the segments, padded with zeros to three
NewVersion(s) ==
    [i \in 1..3 |-> IF i <= Len(StripV(s)) THEN Digits[StripV(s)[i]] ELSE 0]

\* Version.Compare: -1, 0, 1
Compare(v, w) ==
    IF \A i \in 1..3 : v[i] = w[i] THEN 0
    ELSE LET i == CHOOSE i \in 1..3 : v[i] # w[i] /\ \A j \in 1..(i - 1) : v[j] = w[j]
         IN  IF v[i] < w[i] THEN -1 ELSE 1

ConstraintOps == {"", "=", "!=", ">", "<", ">=", "<="}

\* one clause of a constraint set
ClauseHolds(cl, v) ==
    LET c == Compare(v, cl.ver) IN
    CASE cl.op \in {"", "="} -> c = 0
      [] cl.op = "!="        -> c # 0
      [] cl.op = ">"         -> c = 1
      [] cl.op = "<"         -> c = -1
      [] cl.op = ">="        -> c >= 0
      [] cl.op = "<="        -> c <= 0

\* Constraints.Check: every clause holds
Check(cs, v) == \A i \in 1..Len(cs) : ClauseHolds(cs[i], v)

\* versionConstraints goVersion.Constraints: a slice, nil until parsed
NilConstraints == [nil |-> TRUE, cs |-> <<>>]

\* lines 189-192: goVersion.NewConstraint(c.RequiredVersion) fails
ConstraintError(expr) ==
    \E i \in 1..Len(expr) :
        expr[i].op \notin ConstraintOps \/ VersionError(expr[i].ver)

\* lines 189-193: the parsed constraint set
NewConstraint(expr) ==
    [nil |-> FALSE,
     cs  |-> [i \in 1..Len(expr) |->
                [op |-> expr[i].op,
                 ver |-> NewVersion(expr[i].ver)]]]

\* a gate that also rejects a version string it cannot parse
ValidateVersionStrict(constraints, v) ==
    IF constraints.nil THEN ""
    ELSE IF VersionError(v) THEN "version does not satisfy constraints"
    ELSE IF ~Check(constraints.cs, NewVersion(v))
         THEN "version does not satisfy constraints"
         ELSE ""

\* lines 251-266: Config.ValidateVersion, "" standing for a nil error
ValidateVersion(constraints, v) ==
    IF constraints.nil THEN ""
    ELSE IF VersionError(v) THEN ""
    ELSE IF ~Check(constraints.cs, NewVersion(v))
         THEN "version does not satisfy constraints"
         ELSE ""

-----------------------------------------------------------------------------
(* Config, Load and Restrict                                               *)

MaxPlugins == 2

MaxLoads == 2

MaxRestricts == 2

DefaultClusterName == "default"

\* the built-in plugins setupPlugins puts first
defaultPluginNames == <<"ssm", "secretsmanager">>

\* native functions newConfigLoader registers (lines 43-45)
DefaultJsonnetNativeFuncs == {"must_env"}

\* Config{}: the fields that decide how Load and Restrict end; Region,
\* Timeout and FilterCommand are defaulted or logged without a failure path
ZeroConf ==
    [RequiredVersion       |-> <<>>,
     Cluster               |-> "",
     ServiceDefinitionPath |-> <<>>,
     TaskDefinitionPath    |-> <<>>,
     Plugins               |-> <<>>,
     dir                   |-> <<>>,
     versionConstraints    |-> NilConstraints,
     templateFuncs         |-> <<>>,
     jsonnetNativeFuncs    |-> <<>>]

\* unmarshalYAML / unmarshalJSON into conf (lines 130, 142)
Decode(c, doc) ==
    [c EXCEPT !.RequiredVersion = doc.RequiredVersion,
              !.Cluster = doc.Cluster,
              !.ServiceDefinitionPath = doc.ServiceDefinitionPath,
              !.TaskDefinitionPath = doc.TaskDefinitionPath,
              !.Plugins = doc.Plugins]

\* what the read stage of Load can end with for a given extension
\* (lines 124-147); "" is success
ReadOutcomes(ext) ==
    IF ext \in {ymlExt, yamlExt}
    THEN {"", "read error", "failed to parse yaml"}
    ELSE IF ext \in {jsonExt, jsonnetExt}
    THEN {"", "failed to evaluate jsonnet file", "failed to read template file",
          "failed to unmarshal json"}
    ELSE {"unsupported config file extension"}

\* a Load that hands the Config back along with the error
LoadResultPartial(c, err) == [nil |-> FALSE, c |-> c]

\* the *Config Load returns with error err (lines 128-162)
LoadResult(c, err) ==
    IF err # "" THEN [nil |-> TRUE, c |-> ZeroConf] ELSE [nil |-> FALSE, c |-> c]

\* a Restrict that leaves an empty cluster name alone
DefaultClusterSkipped(c) == c

\* lines 176-178
DefaultCluster(c) ==
    IF c.Cluster = "" THEN [c EXCEPT !.Cluster = DefaultClusterName] ELSE c

\* lines 179-181
DefaultDir(c) == IF c.dir = <<>> THEN [c EXCEPT !.dir = <<".">>] ELSE c

\* a resolution that joins without checking for an absolute path
ResolvePathAlways(dir, p) == IF p # <<>> THEN Join(dir, p) ELSE p

\* lines 182-187, for either path field
ResolvePath(dir, p) == IF p # <<>> /\ ~IsAbs(p) THEN Join(dir, p) ELSE p

\* lines 176-187
RestrictFields(c) ==
    LET d == DefaultDir(DefaultCluster(c)) IN
    [d EXCEPT !.ServiceDefinitionPath = ResolvePath(d.dir, @),
              !.TaskDefinitionPath = ResolvePath(d.dir, @)]

\* lines 188-194
ParseRequiredVersion(c) ==
    IF c.RequiredVersion # <<>> /\ ~ConstraintError(c.RequiredVersion)
    THEN [c EXCEPT !.versionConstraints = NewConstraint(c.RequiredVersion)]
    ELSE c

\* a Restrict that loads the AWS configuration before it parses required_version
RestrictErrorAwsFirst(c, awsFails) ==
    IF awsFails THEN "failed to load aws config"
    ELSE IF c.RequiredVersion # <<>> /\ ConstraintError(c.RequiredVersion)
    THEN "required_version has invalid format"
    ELSE ""

\* lines 188-216: the error Restrict returns before it reaches setupPlugins
RestrictError(c, awsFails) ==
    IF c.RequiredVersion # <<>> /\ ConstraintError(c.RequiredVersion)
    THEN "required_version has invalid format"
    ELSE IF awsFails THEN "failed to load aws config"
    ELSE ""

\* a pipeline that runs the user's plugins before the built-in ones
PluginListUserFirst(c) == c.Plugins \o defaultPluginNames

\* lines 237-241
PluginList(c) == defaultPluginNames \o c.Plugins

\* what one ConfigPlugin.Setup(ctx, c) call may do
PluginOutcomes == {"fail", "ok", "clearCluster", "movePaths"}

\* fields of Config a Setup outcome writes
PluginWrites(outcome) ==
    CASE outcome = "clearCluster" -> {"Cluster"}
      [] outcome = "movePaths"    -> {"ServiceDefinitionPath", "TaskDefinitionPath"}
      [] OTHER                    -> {}

\* ConfigPlugin.Setup succeeding: it adds its functions to the Config and may
\* rewrite fields
PluginEffect(c, name, outcome) ==
    LET f == [c EXCEPT !.templateFuncs = Append(@, name),
                       !.jsonnetNativeFuncs = Append(@, name)] IN
    CASE outcome = "clearCluster" -> [f EXCEPT !.Cluster = ""]
      [] outcome = "movePaths"    -> [f EXCEPT !.ServiceDefinitionPath = <<"p">>,
                                               !.TaskDefinitionPath = <<"p">>]
      [] OTHER                    -> f

Elems(q) == { q[i] : i \in 1..Len(q) }

\* a Load that registers the functions whether or not it succeeded
RegisteredAlways(registered, fs, err) == registered \cup Elems(fs)

\* lines 153-161: the functions registered once Load is through
Registered(registered, fs, err) ==
    IF err # "" THEN registered ELSE registered \cup Elems(fs)

NoResult == [nil |-> TRUE, c |-> ZeroConf]

LoadIdle ==
    /\ lpc = "idle"
    /\ cfgPath = <<>>
    /\ version = <<>>
    /\ conf = ZeroConf
    /\ origConf = ZeroConf
    /\ viaLoad = FALSE
    /\ plugins = <<>>
    /\ setupLog = <<>>
    /\ setupFailed = 0
    /\ pluginWrote = {}
    /\ restrictErr = ""
    /\ restricts = 0
    /\ retConf = NoResult
    /\ retErr = ""
    /\ funcsAtCall = {}
    /\ nativeAtCall = {}

\* newConfigLoader (lines 35-50)
LoadInit ==
    /\ LoadIdle
    /\ loaderFuncs = {}
    /\ loaderNative = DefaultJsonnetNativeFuncs
    /\ loads = 0

\* line 121-122: Load(ctx, path, version) is called
LoadCall(p, v) ==
    /\ lpc = "idle"
    /\ loads < MaxLoads
    /\ lpc' = "read"
    /\ loads' = loads + 1
    /\ cfgPath' = p
    /\ version' = v
    /\ conf' = ZeroConf
    /\ origConf' = ZeroConf
    /\ viaLoad' = TRUE
    /\ funcsAtCall' = loaderFuncs
    /\ nativeAtCall' = loaderNative
    /\ UNCHANGED <<plugins, setupLog, setupFailed, pluginWrote, restrictErr, restricts,
                   retConf, retErr, loaderFuncs, loaderNative>>
    /\ UNCHANGED <<envVars, tagVars>>

\* lines 123-149: dispatch on the extension, read and decode the document,
\* then set conf.dir
ReadAndDecode(doc, outcome) ==
    /\ lpc = "read"
    /\ outcome \in ReadOutcomes(Ext(cfgPath))
    /\ IF outcome = ""
       THEN /\ conf' = [Decode(conf, doc) EXCEPT !.dir = Dir(cfgPath)]
            /\ lpc' = "restrict"
            /\ UNCHANGED <<retConf, retErr>>
       ELSE /\ retConf' = LoadResult(conf, outcome)
            /\ retErr' = outcome
            /\ lpc' = "done"
            /\ conf' = conf
    /\ UNCHANGED <<cfgPath, version, origConf, viaLoad, plugins, setupLog, setupFailed,
                   pluginWrote, restrictErr, restricts, loaderFuncs, loaderNative,
                   funcsAtCall, nativeAtCall, loads>>
    /\ UNCHANGED <<envVars, tagVars>>

\* Restrict(ctx) called directly on a Config value
RestrictCall(c) ==
    /\ lpc = "idle"
    /\ conf' = c
    /\ viaLoad' = FALSE
    /\ lpc' = "restrict"
    /\ UNCHANGED <<cfgPath, version, origConf, plugins, setupLog, setupFailed, pluginWrote,
                   restrictErr, restricts, retConf, retErr, loaderFuncs, loaderNative,
                   funcsAtCall, nativeAtCall, loads>>
    /\ UNCHANGED <<envVars, tagVars>>

\* Restrict hands err back to its caller: Load returns (nil, err) on an
\* error (lines 150-152) and goes on to ValidateVersion otherwise
RestrictReturns(c, err) ==
    /\ restrictErr' = err
    /\ restricts' = IF err = "" THEN restricts + 1 ELSE restricts
    /\ IF viaLoad
       THEN IF err # ""
            THEN /\ retConf' = LoadResult(c, err)
                 /\ retErr' = err
                 /\ lpc' = "done"
            ELSE /\ lpc' = "validate"
                 /\ UNCHANGED <<retConf, retErr>>
       ELSE /\ lpc' = "restricted"
            /\ UNCHANGED <<retConf, retErr>>

\* lines 175-216: Restrict up to the call of setupPlugins
RestrictPrelude(awsFails) ==
    /\ lpc = "restrict"
    /\ origConf' = conf
    /\ setupLog' = <<>>
    /\ setupFailed' = 0
    /\ LET c == ParseRequiredVersion(RestrictFields(conf))
           err == RestrictError(c, awsFails)
       IN  /\ conf' = c
           /\ IF err # ""
              THEN /\ RestrictReturns(c, err)
                   /\ plugins' = <<>>
              ELSE /\ plugins' = PluginList(c)
                   /\ lpc' = "plugins"
                   /\ UNCHANGED <<restrictErr, restricts, retConf, retErr>>
    /\ UNCHANGED <<cfgPath, version, viaLoad, pluginWrote, loaderFuncs, loaderNative,
                   funcsAtCall, nativeAtCall, loads>>
    /\ UNCHANGED <<envVars, tagVars>>

\* lines 242-246: one iteration of the loop, p.Setup(ctx, c)
SetupPlugin(outcome) ==
    /\ lpc = "plugins"
    /\ Len(setupLog) < Len(plugins)
    /\ LET i == Len(setupLog) + 1 IN
       /\ setupLog' = Append(setupLog, plugins[i])
       /\ IF outcome = "fail"
          THEN /\ setupFailed' = i
               /\ conf' = conf
               /\ pluginWrote' = pluginWrote
               /\ RestrictReturns(conf, "failed to setup plugins")
          ELSE /\ conf' = PluginEffect(conf, plugins[i], outcome)
               /\ pluginWrote' = pluginWrote \cup PluginWrites(outcome)
               /\ UNCHANGED <<lpc, setupFailed, restrictErr, restricts, retConf, retErr>>
    /\ UNCHANGED <<cfgPath, version, origConf, viaLoad, plugins, loaderFuncs,
                   loaderNative, funcsAtCall, nativeAtCall, loads>>
    /\ UNCHANGED <<envVars, tagVars>>

\* lines 247 and 220-223: the loop is over, Restrict returns nil
PluginsDone ==
    /\ lpc = "plugins"
    /\ Len(setupLog) = Len(plugins)
    /\ RestrictReturns(conf, "")
    /\ UNCHANGED <<cfgPath, version, conf, origConf, viaLoad, plugins, setupLog,
                   setupFailed, pluginWrote, loaderFuncs, loaderNative, funcsAtCall,
                   nativeAtCall, loads>>
    /\ UNCHANGED <<envVars, tagVars>>

\* lines 153-162: ValidateVersion, then register the functions and return
ValidateAndRegister ==
    /\ lpc = "validate"
    /\ LET err == ValidateVersion(conf.versionConstraints, version) IN
       /\ retErr' = err
       /\ retConf' = LoadResult(conf, err)
       /\ loaderFuncs' = Registered(loaderFuncs, conf.templateFuncs, err)
       /\ loaderNative' = Registered(loaderNative, conf.jsonnetNativeFuncs, err)
    /\ lpc' = "done"
    /\ UNCHANGED <<cfgPath, version, conf, origConf, viaLoad, plugins, setupLog,
                   setupFailed, pluginWrote, restrictErr, restricts, funcsAtCall,
                   nativeAtCall, loads>>
    /\ UNCHANGED <<envVars, tagVars>>

\* the caller calls Restrict once more on a Config that a Restrict or a Load
\* has already normalized
RestrictAgain ==
    /\ \/ lpc = "restricted" /\ restrictErr = ""
       \/ lpc = "done" /\ ~retConf.nil
    /\ restricts < MaxRestricts
    /\ viaLoad' = FALSE
    /\ lpc' = "restrict"
    /\ UNCHANGED <<cfgPath, version, conf, origConf, plugins, setupLog, setupFailed,
                   pluginWrote, restrictErr, restricts, retConf, retErr, loaderFuncs,
                   loaderNative, funcsAtCall, nativeAtCall, loads>>
    /\ UNCHANGED <<envVars, tagVars>>

\* the caller is through with the result; the loader stays
Finished ==
    /\ lpc \in {"done", "restricted"}
    /\ lpc' = "idle"
    /\ cfgPath' = <<>>
    /\ version' = <<>>
    /\ conf' = ZeroConf
    /\ origConf' = ZeroConf
    /\ viaLoad' = FALSE
    /\ plugins' = <<>>
    /\ setupLog' = <<>>
    /\ setupFailed' = 0
    /\ pluginWrote' = {}
    /\ restrictErr' = ""
    /\ restricts' = 0
    /\ retConf' = NoResult
    /\ retErr' = ""
    /\ funcsAtCall' = {}
    /\ nativeAtCall' = {}
    /\ UNCHANGED <<loaderFuncs, loaderNative, loads>>
    /\ UNCHANGED <<envVars, tagVars>>

-----------------------------------------------------------------------------
(* ConfigIgnore                                                            *)

MaxTags == 3

MaxIgnoreTags == 2

MaxApplies == 3

\* tag.Key is a *string
NilKey == [nil |-> TRUE, s |-> ""]

KeyOf(k) == [nil |-> FALSE, s |-> k]

\* aws.ToString
awsToString(k) == IF k.nil THEN "" ELSE k.s

\* []types.Tag, which may be nil
NilTags == [nil |-> TRUE, items |-> <<>>]

\* lo.Contains
Contains(q, x) == \E i \in 1..Len(q) : q[i] = x

RECURSIVE Filter(_, _, _, _)
\* lo.Filter with the predicate of line 290: a fresh slice of the elements,
\* taken in order from position i, whose key is not in ignoreTags
Filter(items, ignoreTags, i, acc) ==
    IF i > Len(items) THEN acc
    ELSE IF ~Contains(ignoreTags, awsToString(items[i].Key))
         THEN Filter(items, ignoreTags, i + 1, Append(acc, items[i]))
         ELSE Filter(items, ignoreTags, i + 1, acc)

\* a filter that compares the key pointer's text only when the key is set
filterTagsSkipNilKey(i, tl) ==
    IF i.nil \/ Len(i.Tags) = 0 THEN tl
    ELSE [nil |-> FALSE,
          items |-> SelectSeq(tl.items,
                              LAMBDA t : t.Key.nil \/ ~Contains(i.Tags, t.Key.s))]

\* lines 285-292
filterTags(i, tl) ==
    IF i.nil \/ Len(i.Tags) = 0 THEN tl
    ELSE [nil |-> FALSE, items |-> Filter(tl.items, i.Tags, 1, <<>>)]

\* the nil *ConfigIgnore
NilIgnore == [nil |-> TRUE, Tags |-> <<>>]

TagIdle ==
    /\ ignore = NilIgnore
    /\ tags = NilTags
    /\ tagsGiven = NilTags
    /\ tagsOnce = NilTags
    /\ applies = 0

\* lines 294-297
Apply ==
    /\ applies < MaxApplies
    /\ tags' = filterTags(ignore, tags)
    /\ tagsOnce' = IF applies = 0 THEN filterTags(ignore, tags) ELSE tagsOnce
    /\ applies' = applies + 1
    /\ UNCHANGED <<ignore, tagsGiven>>
    /\ UNCHANGED <<envVars, loadVars>>

-----------------------------------------------------------------------------
(* Inputs                                                                  *)

RECURSIVE SeqsUpTo(_, _)
\* all sequences over S of length at most n
SeqsUpTo(S, n) ==
    IF n = 0 THEN { <<>> }
    ELSE LET shorter == SeqsUpTo(S, n - 1) IN
         shorter \cup { Append(q, x) : q \in shorter, x \in S }

\* config file paths: c.yml, d/c.yaml, /d/c.jsonnet, c.json, c.txt
ConfigPaths ==
    { <<"c", ".", "y", "m", "l">>,
      <<"d", "/", "c", ".", "y", "a", "m", "l">>,
      <<"/", "d", "/", "c", ".", "j", "s", "o", "n", "n", "e", "t">>,
      <<"c", ".", "j", "s", "o", "n">>,
      <<"c", ".", "t", "x", "t">> }

\* config file paths of the load pipeline: c.yml, /d/c.jsonnet, c.txt
LoadPaths ==
    { <<"c", ".", "y", "m", "l">>,
      <<"/", "d", "/", "c", ".", "j", "s", "o", "n", "n", "e", "t">>,
      <<"c", ".", "t", "x", "t">> }

\* runtime versions: "current", "1.9.0", "v2.1"
RuntimeVersions == { <<"current">>, <<"1", "9", "0">>, <<"v", "2", "1">> }

\* required_version: none, ">= 2.0.0", ">= 1, < 2", "=> 2" and ">= 1, >= x"
RequiredVersions ==
    { <<>>,
      << [op |-> ">=", ver |-> <<"2", "0", "0">>] >>,
      << [op |-> ">=", ver |-> <<"1">>], [op |-> "<", ver |-> <<"2">>] >>,
      << [op |-> "=>", ver |-> <<"2">>] >>,
      << [op |-> ">=", ver |-> <<"1">>], [op |-> ">=", ver |-> <<"x">>] >> }

PluginNames == {"tfstate", "cloudformation"}

\* decoded documents of the load pipeline
Docs ==
    [RequiredVersion : RequiredVersions,
     Cluster : {"", "prod"},
     ServiceDefinitionPath : { <<"s">> },
     TaskDefinitionPath : { <<"t">> },
     Plugins : SeqsUpTo(PluginNames, MaxPlugins)]

MaxPathLen == 3

PathChars == {"/", ".", "a"}

\* documents and Config values that vary the definition paths
PathDocs ==
    [RequiredVersion : { <<>> },
     Cluster : {"prod"},
     ServiceDefinitionPath : SeqsUpTo(PathChars, MaxPathLen),
     TaskDefinitionPath : { <<"t">> },
     Plugins : { <<>> }]

\* the dir field of a Config that Restrict is called on directly:
\* "", ".", "d", "/d", "..", "d/e"
ConfigDirs ==
    { <<>>, <<".">>, <<"d">>, <<"/", "d">>, <<".", ".">>, <<"d", "/", "e">> }

-----------------------------------------------------------------------------
(* Load calls on one loader                                                *)

Init ==
    /\ env = [k \in EnvKeys |-> Absent]
    /\ EnvIdle
    /\ LoadInit
    /\ TagIdle

Next ==
    \/ \E p \in LoadPaths, v \in RuntimeVersions : LoadCall(p, v)
    \/ \E doc \in Docs, outcome \in ReadOutcomes(Ext(cfgPath)) : ReadAndDecode(doc, outcome)
    \/ \E awsFails \in BOOLEAN : RestrictPrelude(awsFails)
    \/ \E outcome \in PluginOutcomes : SetupPlugin(outcome)
    \/ PluginsDone
    \/ ValidateAndRegister
    \/ Finished

Spec == Init /\ [][Next]_vars

(* Restrict called on Config values, directly and through Load, once and   *)
(* again                                                                   *)

NextRestrict ==
    \/ \E p \in ConfigPaths, v \in {<<"current">>} : LoadCall(p, v)
    \/ \E doc \in PathDocs : ReadAndDecode(doc, "")
    \/ \E doc \in PathDocs, d \in ConfigDirs :
          RestrictCall([Decode(ZeroConf, doc) EXCEPT !.dir = d])
    \/ RestrictPrelude(FALSE)
    \/ \E outcome \in PluginOutcomes : SetupPlugin(outcome)
    \/ PluginsDone
    \/ ValidateAndRegister
    \/ RestrictAgain
    \/ Finished

SpecRestrict == Init /\ [][NextRestrict]_vars

-----------------------------------------------------------------------------
(* Properties of Load and Restrict                                         *)

\* the last Restrict call on conf returned nil
RestrictOK ==
    /\ lpc \in {"validate", "restricted", "done"}
    /\ restricts > 0
    /\ restrictErr = ""

ReadErrors == {"read error", "failed to parse yaml", "failed to evaluate jsonnet file",
               "failed to read template file", "failed to unmarshal json",
               "unsupported config file extension"}

\* C2: Load returns a non-nil Config with a nil error or a nil Config with a
\* non-nil error; a failure of any stage gives a nil Config, and a Config is
\* returned only when the extension was supported, the document decoded,
\* Restrict went through every plugin and the version gate passed.
C2_LoadAllOrNothing ==
    lpc = "done" =>
        /\ retConf.nil <=> retErr # ""
        /\ retErr \in ReadErrors \cup {"required_version has invalid format",
                                       "failed to load aws config",
                                       "failed to setup plugins",
                                       "version does not satisfy constraints"}
              => retConf.nil
        /\ ~retConf.nil =>
              /\ Ext(cfgPath) \in {ymlExt, yamlExt, jsonExt, jsonnetExt}
              /\ restrictErr = "" /\ setupFailed = 0
              /\ Len(setupLog) = Len(defaultPluginNames) + Len(retConf.c.Plugins)
              /\ ~ConstraintError(retConf.c.RequiredVersion)
              /\ \/ retConf.c.versionConstraints.nil
                 \/ VersionError(version)
                 \/ Check(retConf.c.versionConstraints.cs, NewVersion(version))

\* C2 witness: every plugin ran, the version gate failed, nothing is returned.
C2_Witness ==
    /\ lpc = "done"
    /\ retErr = "version does not satisfy constraints"
    /\ retConf.nil
    /\ Len(setupLog) = 4 /\ setupFailed = 0

\* the original C4: after a Restrict without error the cluster name is not
\* empty, whatever the plugins did
C4_ClusterNeverEmpty == RestrictOK => conf.Cluster # ""

\* C4 (amended): the cluster name is not empty when the plugin pipeline
\* starts, and after a Restrict without error it is the given name, or the
\* default for an empty one, unless a plugin's Setup rewrote the field.
C4_ClusterDefaultedBeforePlugins ==
    /\ lpc = "plugins" /\ setupLog = <<>> =>
          conf.Cluster = IF origConf.Cluster = "" THEN "default" ELSE origConf.Cluster
    /\ RestrictOK /\ "Cluster" \notin pluginWrote =>
          conf.Cluster = IF origConf.Cluster = "" THEN "default" ELSE origConf.Cluster

\* C4 witness: an empty cluster name, defaulted, survives plugins that wrote
\* other fields.
C4_Witness ==
    /\ RestrictOK
    /\ origConf.Cluster = ""
    /\ conf.Cluster = "default"
    /\ pluginWrote = {"ServiceDefinitionPath", "TaskDefinitionPath"}
    /\ Len(setupLog) = 4

\* C5: a non-empty, malformed required_version makes Load fail with the
\* constraint-syntax error, and no plugin's Setup has been invoked by then.
C5_BadConstraintFailsBeforePlugins ==
    /\ retErr = "required_version has invalid format" => setupLog = <<>> /\ plugins = <<>>
    /\ (lpc \in {"plugins", "validate", "done"} /\ ConstraintError(conf.RequiredVersion)) =>
          /\ lpc = "done"
          /\ retErr = "required_version has invalid format"
          /\ retConf.nil
          /\ setupLog = <<>>

\* C5 witness: a config with declared plugins and ">= 1, >= x" has failed.
C5_Witness ==
    /\ lpc = "done"
    /\ retErr = "required_version has invalid format"
    /\ Len(conf.Plugins) = 2
    /\ Len(conf.RequiredVersion) = 2
    /\ setupLog = <<>>

\* ValidateVersion has run in the current Load call
Validated == lpc = "done" /\ viaLoad /\ restricts = 1 /\ restrictErr = ""

\* C6: ValidateVersion fails exactly when a constraint set was parsed, the
\* runtime version parses, and it violates the set; a constraint set is
\* parsed exactly for a non-empty required_version.
C6_VersionGate ==
    /\ lpc \in {"plugins", "validate"} =>
          (conf.versionConstraints.nil <=> conf.RequiredVersion = <<>>)
    /\ Validated =>
          /\ (retErr # "") <=>
                /\ conf.RequiredVersion # <<>>
                /\ ~VersionError(version)
                /\ \E i \in 1..Len(conf.RequiredVersion) :
                      ~ClauseHolds([op |-> conf.RequiredVersion[i].op,
                                    ver |-> NewVersion(conf.RequiredVersion[i].ver)],
                                   NewVersion(version))
          /\ retErr \in {"", "version does not satisfy constraints"}

\* C6 witness: ">= 2.0.0" is in force and the unparseable "current" passes.
C6_Witness ==
    /\ Validated
    /\ retErr = ""
    /\ ~conf.versionConstraints.nil
    /\ version = <<"current">>

\* C7: Setup is invoked in one order, the built-in plugins first and then
\* the declared ones as declared, each once; after a failed Setup no later
\* plugin is invoked and Restrict returns an error.
C7_PluginOrder ==
    /\ lpc = "plugins" \/ RestrictOK \/ setupFailed # 0 =>
          plugins = <<"ssm", "secretsmanager">> \o origConf.Plugins
    /\ Len(setupLog) <= Len(plugins)
    /\ setupLog = SubSeq(plugins, 1, Len(setupLog))
    /\ RestrictOK => setupLog = plugins
    /\ setupFailed # 0 =>
          /\ Len(setupLog) = setupFailed
          /\ restrictErr = "failed to setup plugins"
          /\ lpc # "plugins"
          /\ viaLoad => retConf.nil /\ retErr = "failed to setup plugins"

\* C7 witness: the first declared plugin failed, the second was never set up.
C7_Witness ==
    /\ lpc = "done"
    /\ origConf.Plugins = <<"tfstate", "cloudformation">>
    /\ setupFailed = 3
    /\ setupLog = <<"ssm", "secretsmanager", "tfstate">>

\* C10: while a Load call runs, and after it has returned an error, the
\* loader's template functions and native functions are those it had when
\* the call started.
C10_RegisteredOnlyOnSuccess ==
    (viaLoad /\ (lpc \in {"read", "restrict", "plugins", "validate"}
                 \/ (lpc = "done" /\ retErr # ""))) =>
        /\ loaderFuncs = funcsAtCall
        /\ loaderNative = nativeAtCall

\* C10 witness: all plugins added their functions to the Config, the version
\* gate failed, and the loader has none of them.
C10_Witness ==
    /\ lpc = "done"
    /\ retErr = "version does not satisfy constraints"
    /\ Elems(conf.templateFuncs) = {"ssm", "secretsmanager", "tfstate"}
    /\ Elems(conf.jsonnetNativeFuncs) = {"ssm", "secretsmanager", "tfstate"}
    /\ loaderFuncs = {}
    /\ loaderNative = {"must_env"}

PathFields == {"ServiceDefinitionPath", "TaskDefinitionPath"}

\* the directory Restrict resolves against
UsedDir == IF origConf.dir = <<>> THEN <<".">> ELSE origConf.dir

\* the original C3: a relative path is absolute after Restrict and equals
\* join(configDir, path), an absolute path is unchanged, and a second Restrict
\* changes nothing (plugins that rewrite the path set aside)
C3_PathsAbsoluteAndStable ==
    \A f \in PathFields :
        (RestrictOK /\ f \notin pluginWrote) =>
            /\ (origConf[f] # <<>> /\ ~IsAbs(origConf[f]) /\ restricts = 1) =>
                  IsAbs(conf[f]) /\ conf[f] = Join(UsedDir, origConf[f])
            /\ IsAbs(origConf[f]) => conf[f] = origConf[f]
            /\ restricts >= 2 => conf[f] = origConf[f]

\* C3 (amended): a relative path becomes join(configDir, path), which is
\* absolute exactly when configDir is; an absolute or empty path is left as
\* it is; a second Restrict changes nothing when configDir is absolute or ".".
C3_PathsJoined ==
    \A f \in PathFields :
        (RestrictOK /\ f \notin pluginWrote) =>
            /\ (origConf[f] # <<>> /\ ~IsAbs(origConf[f])) =>
                  /\ conf[f] = Clean(UsedDir \o <<"/">> \o origConf[f])
                  /\ IsAbs(conf[f]) <=> IsAbs(UsedDir)
            /\ (origConf[f] = <<>> \/ IsAbs(origConf[f])) => conf[f] = origConf[f]
            /\ (restricts >= 2 /\ (IsAbs(UsedDir) \/ UsedDir = <<".">>)) =>
                  conf[f] = origConf[f]

\* C3 witness: Load took "." from a relative config path and the path "a"
\* stayed "a" through two Restrict calls.
C3_Witness ==
    /\ RestrictOK
    /\ restricts = 2
    /\ cfgPath = <<"c", ".", "y", "m", "l">>
    /\ conf.dir = <<".">>
    /\ pluginWrote = {}
    /\ origConf.ServiceDefinitionPath = <<"a">>
    /\ conf.ServiceDefinitionPath = <<"a">>
    /\ conf.TaskDefinitionPath = <<"t">>

-----------------------------------------------------------------------------
(* Overlay calls made one after the other by a single goroutine            *)

InitEnv ==
    /\ env \in StartEnvs
    /\ EnvIdle
    /\ LoadInit
    /\ TagIdle

NextEnv ==
    \/ \E ee \in ExtraEnvs : withExtraEnvSet(1, ee)
    \/ \E ee \in ExtraEnvs : ReadWithEnv(1, ee)
    \/ \E ee \in ExtraEnvs : ReadWithEnvBytes(1, ee)
    \/ SaveOld(1)
    \/ SetNew(1)
    \/ RunOp(1)
    \/ Restore(1)
    \/ Return(1)

SpecEnv == InitEnv /\ [][NextEnv]_vars

(* Two goroutines, each making one read through the overlay: goroutine 1   *)
(* reads a file with variables among K1, K2 set to "x" while goroutine 2   *)
(* reads bytes with variables among K2, K3 set to "", so their key sets    *)
(* may or may not overlap.                                                 *)

FirstCall(t) == opResult[t] = "none"

ConcExtraEnvs(t) == IF t = 1 THEN MapsOver({"K1", "K2"}, {"x"})
                    ELSE MapsOver({"K2", "K3"}, {""})

NextConc ==
    \/ \E ee \in ConcExtraEnvs(1) : FirstCall(1) /\ ReadWithEnv(1, ee)
    \/ \E ee \in ConcExtraEnvs(2) : FirstCall(2) /\ ReadWithEnvBytes(2, ee)
    \/ \E t \in Threads :
        \/ SaveOld(t)
        \/ SetNew(t)
        \/ RunOp(t)
        \/ Restore(t)
        \/ Return(t)

SpecConc == InitEnv /\ [][NextConc]_vars

-----------------------------------------------------------------------------
(* Apply called repeatedly on one entity                                   *)

TagKeys == {NilKey, KeyOf("ecspresso:ignore"), KeyOf("env")}

Tag == [Key : TagKeys, Value : {"1", "2"}]

TagLists == {NilTags} \cup { [nil |-> FALSE, items |-> q] : q \in SeqsUpTo(Tag, MaxTags) }

Ignores == {NilIgnore} \cup
           { [nil |-> FALSE, Tags |-> q] :
               q \in SeqsUpTo({"", "ecspresso:ignore", "env"}, MaxIgnoreTags) }

InitTags ==
    /\ env = [k \in EnvKeys |-> Absent]
    /\ EnvIdle
    /\ LoadInit
    /\ ignore \in Ignores
    /\ tags \in TagLists
    /\ tagsGiven = tags
    /\ tagsOnce = tags
    /\ applies = 0

NextTags == Apply

SpecTags == InitTags /\ [][NextTags]_vars

\* C8: one Apply keeps, in order, exactly the tags whose key is not among
\* the ignore keys (all of them under a nil or empty rule), and every
\* further Apply leaves that list as it is.
C8_ApplyIdempotent ==
    applies >= 1 =>
        /\ tags = tagsOnce
        /\ tagsOnce.items =
              SelectSeq(tagsGiven.items,
                        LAMBDA t : \A j \in 1..Len(ignore.Tags) :
                                      ignore.Tags[j] # (IF t.Key.nil THEN "" ELSE t.Key.s))
        /\ (ignore.nil \/ ignore.Tags = <<>>) => tagsOnce = tagsGiven

\* C8 witness: a second Apply on a list that lost two of its three tags, one
\* of them with a nil key matched by the ignore key "".
C8_Witness ==
    /\ applies = 2
    /\ ignore.Tags = <<"ecspresso:ignore", "">>
    /\ Len(tagsGiven.items) = 3
    /\ tagsGiven.items[1].Key = NilKey
    /\ tagsGiven.items[3].Key = KeyOf("ecspresso:ignore")
    /\ tags.items = << [Key |-> KeyOf("env"), Value |-> "2"] >>

-----------------------------------------------------------------------------
(* Properties of the overlay                                               *)

Keys(t) == IF extraEnv[t].nil THEN {} ELSE DOMAIN extraEnv[t].m

Returned(t) == tpc[t] \in {"ret", "idle"} /\ opResult[t] # "none"

\* C1: once withExtraEnvSet / ReadWithEnv / ReadWithEnvBytes has returned,
\* every key of extraEnv is back at its pre-call state (same value, the empty
\* string included, or absent again), whatever f returned; the overlay never
\* writes a key outside extraEnv, and a read through the loader leaves the
\* whole environment as it was.
C1_OverlayRestored ==
    /\ touched[1] \subseteq Keys(1)
    /\ Returned(1) =>
          /\ \A k \in Keys(1) : env[k] = envAtCall[1][k]
          /\ opKind[1] # "custom" => env = envAtCall[1]

\* C1 witness: a failed operation under an overlay that replaced an empty
\* value and created a variable, both put back.
C1_Witness ==
    /\ tpc[1] = "ret"
    /\ opResult[1] = "err"
    /\ Keys(1) = {"K1", "K2"}
    /\ extraEnv[1].m["K1"] = "x" /\ extraEnv[1].m["K2"] = "x"
    /\ envAtCall[1]["K1"] = Present("") /\ envAtCall[1]["K2"] = Absent
    /\ touched[1] = {"K1", "K2"}
    /\ env["K1"] = Present("") /\ env["K2"] = Absent

BothReturned == \A t \in Threads : tpc[t] = "idle" /\ opResult[t] # "none"

\* C9: two overlay calls running concurrently with disjoint key sets leave
\* every key of both sets at its pre-call state once both have returned,
\* under every interleaving of their steps.
C9_DisjointOverlaysRestored ==
    (BothReturned /\ Keys(1) \cap Keys(2) = {}) =>
        \A t \in Threads : \A k \in Keys(t) : env[k] = envAtCall[t][k]

\* C9 witness: goroutine 2 entered while goroutine 1's overlay was installed
\* (it saw K1 = "x"), the key sets are disjoint, and all keys are back.
C9_Witness ==
    /\ BothReturned
    /\ Keys(1) = {"K1", "K2"} /\ Keys(2) = {"K3"}
    /\ envAtCall[1]["K1"] = Absent /\ envAtCall[2]["K1"] = Present("x")
    /\ envAtCall[1]["K3"] = Present("x") /\ envAtCall[2]["K3"] = Present("x")
    /\ env["K1"] = Absent /\ env["K3"] = Present("x")
    /\ opResult[1] = "err"

\* the same statement without the disjointness premise, which a shared key
\* falsifies: one overlay saves the other's value as the old one
OverlappingOverlaysRestored ==
    BothReturned => \A t \in Threads : \A k \in Keys(t) : env[k] = envAtCall[t][k]

====
